---- MODULE Spec2Model ----
(***************************************************************************)
(* A model of the databricks-ops workflow reconciler (src/workflow).       *)
(*                                                                         *)
(* One run of run_workflow reads the last-applied snapshot from the state  *)
(* store, renders the desired jobs from the configuration file, lists the  *)
(* remote jobs and then runs the update, delete and create phases.  A      *)
(* Python exception ends the run where it is raised.                       *)
(*                                                                         *)
(* Representation                                                          *)
(*   - a Python dict is a TLA+ function; a key the dict lacks is outside   *)
(*     its DOMAIN, and {} is the function with the empty domain;           *)
(*   - dict iteration order is the order of WorkflowOrder (the order of    *)
(*     the keys in the configuration file and in a stored snapshot);       *)
(*   - the job identifier None is NoneId (0); remote identifiers are       *)
(*     positive;                                                           *)
(*   - an Optional list is a record [none, val];                           *)
(*   - a version label is the sequence of its characters;                  *)
(*   - a function that may raise returns a record whose exc field names    *)
(*     the exception ("none" when it returns normally).                    *)
(***************************************************************************)
EXTENDS Integers, Sequences, FiniteSets, TLC

\* ------------------------------------------------------------------ bounds
MaxRuns == 2        \* runs of run_workflow in one behaviour
MaxLen == 3         \* length of the version strings given to generate_version

\* --------------------------------------------------------------- constants
BUCKET_NAME == "databricks-workflow"
CURRENT_STATE_FILEPATH == "current_state.json"
HISTORIC_STATE_FILEPATH == "historic_state.json"

NoneId == 0

WorkflowOrder == <<"workflow1", "workflow2">>
Workflows == {WorkflowOrder[i] : i \in DOMAIN WorkflowOrder}
JobNames == {"alpha", "beta"}
Schedules == {"s1", "s2"}
\* the identifiers of the remote jobs that exist before the first run
SeedJobIds == {1, 2}

EmptyDict == [k \in {} |-> 0]

\* ------------------------------------------------------------ dict helpers
\* dict.get(key, default)
Get(d, k, default) == IF k \in DOMAIN d THEN d[k] ELSE default

\* d[key] = value on a dict
Put(d, k, v) == [x \in DOMAIN d \cup {k} |-> IF x = k THEN v ELSE d[x]]

\* the dict without key k (dict.pop's effect on the dict)
Without(d, k) == [x \in DOMAIN d \ {k} |-> d[x]]

\* the keys of a dict over workflow names, in iteration order
RECURSIVE KeysFrom(_, _)
KeysFrom(d, i) ==
    IF i > Len(WorkflowOrder) THEN <<>>
    ELSE IF WorkflowOrder[i] \in DOMAIN d
         THEN <<WorkflowOrder[i]>> \o KeysFrom(d, i + 1)
         ELSE KeysFrom(d, i + 1)

Keys(d) == KeysFrom(d, 1)

\* x in a list
InList(x, l) == \E i \in DOMAIN l : l[i] = x

\* ---------------------------------------------------------- version labels
Digits == <<"0", "1", "2", "3", "4", "5", "6", "7", "8", "9">>
VersionChars == {Digits[i] : i \in DOMAIN Digits} \cup {".", "x"}

IsDigit(c) == \E i \in DOMAIN Digits : Digits[i] = c
DigitVal(c) == (CHOOSE i \in DOMAIN Digits : Digits[i] = c) - 1

\* str.split('.'): the pieces between the dots
RECURSIVE Split(_, _)
Split(s, piece) ==
    IF s = <<>> THEN <<piece>>
    ELSE IF Head(s) = "." THEN <<piece>> \o Split(Tail(s), <<>>)
         ELSE Split(Tail(s), Append(piece, Head(s)))

\* int(s) accepts a non-empty string of decimal digits
IsInt(s) == s # <<>> /\ \A i \in DOMAIN s : IsDigit(s[i])

RECURSIVE StrToInt(_, _)
StrToInt(s, acc) ==
    IF s = <<>> THEN acc ELSE StrToInt(Tail(s), 10 * acc + DigitVal(Head(s)))

\* f"{n}" for n >= 0
RECURSIVE IntToStr(_)
IntToStr(n) ==
    IF n < 10 THEN <<Digits[n + 1]>>
    ELSE IntToStr(n \div 10) \o <<Digits[(n % 10) + 1]>>

\* an Optional value
None == [none |-> TRUE, val |-> <<>>]
Some(v) == [none |-> FALSE, val |-> v]

\* truthiness of an Optional string or list
Truthy(o) == ~o.none /\ o.val # <<>>

\* the minor component after which the major component is incremented
generate_version_wrap_late(minor) == minor = 10

MinorWraps(minor) == minor = 9

\* generate_version(current_version): [exc, ret]
generate_version(current_version) ==
    IF Truthy(current_version)
    THEN LET parts == Split(current_version.val, <<>>)
         IN  IF Len(parts) # 2 \/ ~IsInt(parts[1]) \/ ~IsInt(parts[2])
             THEN [exc |-> "ValueError", ret |-> <<>>]
             ELSE LET major == StrToInt(parts[1], 0)
                      minor == StrToInt(parts[2], 0)
                  IN  IF MinorWraps(minor)
                      THEN [exc |-> "none",
                            ret |-> IntToStr(major + 1) \o <<".">> \o IntToStr(0)]
                      ELSE [exc |-> "none",
                            ret |-> IntToStr(major) \o <<".">> \o IntToStr(minor + 1)]
    ELSE [exc |-> "none", ret |-> <<"1", ".", "0">>]

\* ------------------------------------------------------------- state store
\* the S3 key of the current snapshot, and of the historic blob of a version:
\* f"{HISTORIC_STATE_FILEPATH}/state_file_{version_name}.json"
CurrentKey == <<CURRENT_STATE_FILEPATH>>
HistoricKey(version_name) == <<HISTORIC_STATE_FILEPATH, version_name>>

\* "not s3_key": the key is the empty string
KeyEmpty(s3_key) == s3_key = <<>> \/ s3_key = <<"">>

\* json.dumps(data, indent=4): the text of the object; json.loads(content)
\* gives the object back when content is such a text
json_dumps(data) == [json |-> data]
IsJson(content) == DOMAIN content = {"json"}
json_loads(content) == content.json

\* a guard of write_json_to_s3 that rejects the empty bucket name or key only
write_rejects_empty_only(bucket_name, s3_key) == bucket_name = "" \/ KeyEmpty(s3_key)

\* the guard of write_json_to_s3 (json_utils.py:27): "not bucket_name or s3_key"
WriteRejects(bucket_name, s3_key) == bucket_name = "" \/ ~KeyEmpty(s3_key)

\* write_json_to_s3(data, bucket_name, s3_key) on the store s3; put_ok is
\* whether s3.put_object succeeds: [exc, ret, s3]
write_json_to_s3(s3, data, bucket_name, s3_key, put_ok) ==
    IF WriteRejects(bucket_name, s3_key)
    THEN [exc |-> "ValueError", ret |-> FALSE, s3 |-> s3]
    ELSE IF put_ok
         THEN [exc |-> "none", ret |-> TRUE, s3 |-> Put(s3, s3_key, json_dumps(data))]
         ELSE [exc |-> "none", ret |-> FALSE, s3 |-> s3]

\* read_json_file_from_s3(bucket_name, s3_key); get_ok is whether
\* s3.get_object succeeds on an existing key: [exc, none, val]
read_json_file_from_s3(s3, bucket_name, s3_key, get_ok) ==
    IF bucket_name = "" \/ KeyEmpty(s3_key)
    THEN [exc |-> "ValueError", none |-> TRUE, val |-> EmptyDict]
    ELSE IF get_ok /\ s3_key \in DOMAIN s3 /\ IsJson(s3[s3_key])
         THEN [exc |-> "none", none |-> FALSE, val |-> json_loads(s3[s3_key])]
         ELSE [exc |-> "none", none |-> TRUE, val |-> EmptyDict]

\* the branch of get_current_version that reads the version
\* (version_utils.py:49): "if data is None"
ReadsVersion(data_is_none) == data_is_none

\* get_current_version(bucket_name, file_path): [exc, ret], ret an Optional
\* version.  Subscripting None raises TypeError, which the except clause
\* (FileNotFoundError, JSONDecodeError, KeyError) does not catch.
get_current_version(s3, bucket_name, file_path, get_ok) ==
    LET data == read_json_file_from_s3(s3, bucket_name, file_path, get_ok)
    IN  IF data.exc # "none" THEN [exc |-> data.exc, ret |-> None]
        ELSE IF ReadsVersion(data.none)
             THEN IF data.none
                  THEN [exc |-> "TypeError", ret |-> None]
                  ELSE IF "metadata" \in DOMAIN data.val
                          /\ "version" \in DOMAIN data.val.metadata
                       THEN [exc |-> "none", ret |-> Some(data.val.metadata.version)]
                       ELSE [exc |-> "none", ret |-> None]
             ELSE [exc |-> "none", ret |-> None]

\* create_json_with_metadata(extended_workflow_data, current_version);
\* now is datetime.now(): [exc, ret]
create_json_with_metadata(extended_workflow_data, current_version, now) ==
    LET version == generate_version(current_version)
    IN  IF version.exc # "none" THEN [exc |-> version.exc, ret |-> EmptyDict]
        ELSE [exc |-> "none",
              ret |-> [metadata |-> [version |-> version.ret, timestamp |-> now],
                       config |-> extended_workflow_data]]

\* update_state_file(extended_workflow_data) on the store s3:
\* [exc, s3, json, puts, prior]; json is the snapshot built (an Optional),
\* puts the keys write_json_to_s3 was called with, prior the version read
update_state_file(s3, extended_workflow_data, now, get_ok, put_ok) ==
    LET current_version ==
            get_current_version(s3, BUCKET_NAME, CurrentKey, get_ok)
        json_data ==
            create_json_with_metadata(extended_workflow_data, current_version.ret, now)
        version_name == json_data.ret.metadata.version
        w1 == write_json_to_s3(s3, json_data.ret, BUCKET_NAME,
                               HistoricKey(version_name), put_ok[1])
        w2 == write_json_to_s3(w1.s3, json_data.ret, BUCKET_NAME,
                               CurrentKey, put_ok[2])
    IN  IF current_version.exc # "none"
        THEN [exc |-> current_version.exc, s3 |-> s3, json |-> None,
              puts |-> <<>>, prior |-> None]
        ELSE IF json_data.exc # "none"
        THEN [exc |-> json_data.exc, s3 |-> s3, json |-> None,
              puts |-> <<>>, prior |-> current_version.ret]
        ELSE IF w1.exc # "none"
        THEN [exc |-> w1.exc, s3 |-> s3, json |-> Some(json_data.ret),
              puts |-> <<HistoricKey(version_name)>>, prior |-> current_version.ret]
        ELSE [exc |-> w2.exc, s3 |-> w2.s3, json |-> Some(json_data.ret),
              puts |-> <<HistoricKey(version_name), CurrentKey>>,
              prior |-> current_version.ret]

\* ------------------------------------------------------- reconciliation
\* the task types of TaskType (task_payload.py:6-10)
TaskTypeNames == {"NOTEBOOK", "PYTHON", "SQL", "DBT"}

\* what open and json.load do on a cluster config path: the file system has
\* a well-formed cluster.json and a malformed.json, and nothing else
ClusterFile(cluster_config_path) ==
    IF cluster_config_path = "cluster.json" THEN "ok"
    ELSE IF cluster_config_path = "malformed.json" THEN "JSONDecodeError"
    ELSE "FileNotFoundError"

\* the task types whose builder takes the three arguments create_task_payload
\* calls it with (task_payload.py:182-192): NOTEBOOK and PYTHON map to
\* build_notebook_payload; build_sql_payload and build_dbt_payload take one
BuilderTakesCall(task_type) == task_type \in {"NOTEBOOK", "PYTHON"}

\* a create_task_payload that builds the payload without checking the task
create_task_payload_unchecked(task_config) ==
    [exc |-> "none",
     ret |-> [task_key |-> task_config.task_name,
              notebook_path |-> task_config.filepath,
              new_cluster |-> task_config.cluster_config_path]]

\* create_task_payload(task_config) for a task without gcp_connection:
\* [exc, ret].  A task_name, filepath or cluster_config_path that is missing
\* is the empty string; the tasktype key is always there.  TaskType(...)
\* raises ValueError for a name that is not a task type.
create_task_payload(task_config) ==
    LET failed(e) == [exc |-> e, ret |-> EmptyDict]
    IN  IF task_config.task_name = "" THEN failed("ValueError")
        ELSE IF task_config.cluster_config_path # ""
                /\ ClusterFile(task_config.cluster_config_path) # "ok"
        THEN failed("ValueError")
        ELSE IF task_config.tasktype \notin TaskTypeNames THEN failed("ValueError")
        ELSE IF ~BuilderTakesCall(task_config.tasktype) THEN failed("TypeError")
        ELSE IF task_config.filepath = "" THEN failed("ValueError")
        ELSE [exc |-> "none",
              ret |-> [task_key |-> task_config.task_name,
                       notebook_path |-> task_config.filepath,
                       new_cluster |-> task_config.cluster_config_path]]

\* tasks_payload of process_workflow (main.py:173-184) for the tasks of one
\* workflow: [exc, ret]; the first task that raises ends the loop
RECURSIVE TasksPayload(_)
TasksPayload(tasks) ==
    IF tasks = <<>> THEN [exc |-> "none", ret |-> <<>>]
    ELSE LET task_payload == create_task_payload(Head(tasks))
             rest == TasksPayload(Tail(tasks))
         IN  IF task_payload.exc # "none" THEN [exc |-> task_payload.exc, ret |-> <<>>]
             ELSE IF rest.exc # "none" THEN rest
             ELSE [exc |-> "none", ret |-> <<task_payload.ret>> \o rest.ret]

\* the tasks of a workflow definition: workflow_details.get("tasks", [])
TasksOf(workflow_details) == Get(workflow_details, "tasks", <<>>)

\* the exception the payload construction of process_workflow raises over the
\* workflows left to iterate (main.py:170-186), "none" if none
RECURSIVE PayloadError(_, _)
PayloadError(keys, workflow_data) ==
    IF keys = <<>> THEN "none"
    ELSE LET tasks_payload == TasksPayload(TasksOf(workflow_data[Head(keys)]))
         IN  IF tasks_payload.exc # "none" THEN tasks_payload.exc
             ELSE PayloadError(Tail(keys), workflow_data)

\* the RenderedJob process_workflow builds from one workflow definition
\* (main.py:188-210): its name, its schedule and its tasks stand for the
\* payload; a payload whose task list is empty is written without tasks
RenderedJob(workflow_details) ==
    LET job == [name |-> workflow_details.job_name,
                schedule |-> workflow_details.schedule]
    IN  IF TasksOf(workflow_details) = <<>> THEN job
        ELSE Put(job, "tasks", TasksPayload(TasksOf(workflow_details)).ret)

\* update_extended_workflow_data_with_job_ids, from the workflow keys left to
\* iterate: [exc, ret].  "job_name in existing_jobs_names" raises TypeError
\* when the inventory is None.
RECURSIVE AttachFrom(_, _, _, _, _, _)
AttachFrom(keys, extended_workflow_data, workflow_data, state_file_workflow_details, existing_jobs_names, new_job_ids) ==
    IF keys = <<>> THEN [exc |-> "none", ret |-> extended_workflow_data]
    ELSE LET workflow_name == Head(keys)
             job_name == workflow_data[workflow_name].job_name
         IN  IF existing_jobs_names.none
             THEN [exc |-> "TypeError", ret |-> extended_workflow_data]
             ELSE IF InList(job_name, existing_jobs_names.val)
             THEN LET job_id == Get(Get(state_file_workflow_details,
                                        workflow_name, EmptyDict),
                                    "job_id", NoneId)
                  IN  AttachFrom(Tail(keys),
                                 [extended_workflow_data EXCEPT ![workflow_name] =
                                     Put(@, "job_id", job_id)],
                                 workflow_data, state_file_workflow_details,
                                 existing_jobs_names, new_job_ids)
             ELSE IF Truthy(new_job_ids)
             THEN AttachFrom(Tail(keys),
                             [extended_workflow_data EXCEPT ![workflow_name] =
                                 Put(@, "job_id", Head(new_job_ids.val))],
                             workflow_data, state_file_workflow_details,
                             existing_jobs_names, Some(Tail(new_job_ids.val)))
             ELSE AttachFrom(Tail(keys), extended_workflow_data, workflow_data,
                             state_file_workflow_details, existing_jobs_names,
                             new_job_ids)

\* update_extended_workflow_data_with_job_ids leaving new_job_ids unused
update_extended_workflow_data_without_new_ids(extended_workflow_data, workflow_data, state_file_workflow_details, existing_jobs_names, new_job_ids) ==
    AttachFrom(Keys(workflow_data), extended_workflow_data, workflow_data,
               state_file_workflow_details, existing_jobs_names, None)

update_extended_workflow_data_with_job_ids(extended_workflow_data, workflow_data, state_file_workflow_details, existing_jobs_names, new_job_ids) ==
    AttachFrom(Keys(workflow_data), extended_workflow_data, workflow_data,
               state_file_workflow_details, existing_jobs_names, new_job_ids)

\* identify_removed_jobs, from the snapshot keys left to iterate
RECURSIVE RemovedFrom(_, _, _)
RemovedFrom(keys, extended_workflow_data, state_file_workflow_details) ==
    IF keys = <<>> THEN <<>>
    ELSE LET rest == RemovedFrom(Tail(keys), extended_workflow_data,
                                 state_file_workflow_details)
         IN  IF Head(keys) \notin DOMAIN extended_workflow_data
             THEN <<Get(state_file_workflow_details[Head(keys)], "job_id", NoneId)>>
                  \o rest
             ELSE rest

\* identify_removed_jobs reporting only the removed workflows that have an
\* identifier stored
HasId(job_id) == job_id # NoneId

identify_removed_jobs_with_ids_only(extended_workflow_data, state_file_workflow_details) ==
    SelectSeq(RemovedFrom(Keys(state_file_workflow_details), extended_workflow_data,
                          state_file_workflow_details), HasId)

identify_removed_jobs(extended_workflow_data, state_file_workflow_details) ==
    RemovedFrom(Keys(state_file_workflow_details), extended_workflow_data,
                state_file_workflow_details)

\* the comparison of update_jobs_workflow (main.py:240-243): the rendered job
\* against the stored entry as it is, its job_id key included
NeedsUpdate(details, current_sate_data) == details # current_sate_data

\* jobs_to_update of update_jobs_workflow (main.py:234-245):
\* name -> [job_id, details]
JobsToUpdate(extended_workflow_data, state_file_workflow_details) ==
    LET stored(name) == Get(state_file_workflow_details, name, EmptyDict)
        queued == {name \in DOMAIN extended_workflow_data :
                      NeedsUpdate(extended_workflow_data[name], stored(name))}
    IN  [name \in queued |->
            [job_id |-> Get(stored(name), "job_id", NoneId),
             details |-> extended_workflow_data[name]]]

\* ------------------------------------------------------- remote job client
\* The remote service is a map from job identifier to the job's name.  A call
\* on a job answers 200 when the network call goes through (net_ok) and the
\* job exists.
Answers200(remote, job_id, net_ok) == net_ok /\ job_id \in DOMAIN remote

Call(op, workflow_name, job_id, name, ok) ==
    [op |-> op, workflow |-> workflow_name, job_id |-> job_id, name |-> name,
     ok |-> ok]

\* update_jobs(token, url, job_ids, jobs_update_data) from item i; names are
\* the workflow keys of the items: [ret, remote, calls]
RECURSIVE UpdateFrom(_, _, _, _, _, _)
UpdateFrom(i, remote, names, job_ids, jobs_update_data, net_ok) ==
    IF i > Len(job_ids) \/ i > Len(jobs_update_data)
    THEN [ret |-> TRUE, remote |-> remote, calls |-> <<>>]
    ELSE LET ok == Answers200(remote, job_ids[i], net_ok[i])
             after == IF ok
                      THEN [remote EXCEPT ![job_ids[i]] = jobs_update_data[i].name]
                      ELSE remote
             rest == UpdateFrom(i + 1, after, names, job_ids, jobs_update_data, net_ok)
         IN  [ret |-> ok /\ rest.ret,
              remote |-> rest.remote,
              calls |-> <<Call("update", names[i], job_ids[i],
                               jobs_update_data[i].name, ok)>> \o rest.calls]

\* update_jobs returning at the first item that fails
RECURSIVE UpdateFromFailFast(_, _, _, _, _, _)
UpdateFromFailFast(i, remote, names, job_ids, jobs_update_data, net_ok) ==
    IF i > Len(job_ids) \/ i > Len(jobs_update_data)
    THEN [ret |-> TRUE, remote |-> remote, calls |-> <<>>]
    ELSE LET ok == Answers200(remote, job_ids[i], net_ok[i])
             call == Call("update", names[i], job_ids[i], jobs_update_data[i].name, ok)
             rest == UpdateFromFailFast(i + 1,
                         [remote EXCEPT ![job_ids[i]] = jobs_update_data[i].name],
                         names, job_ids, jobs_update_data, net_ok)
         IN  IF ok
             THEN [rest EXCEPT !.calls = <<call>> \o @]
             ELSE [ret |-> FALSE, remote |-> remote, calls |-> <<call>>]

update_jobs_fail_fast(remote, names, job_ids, jobs_update_data, net_ok) ==
    UpdateFromFailFast(1, remote, names, job_ids, jobs_update_data, net_ok)

\* update_jobs pairing the payloads with the identifiers in reverse order
update_jobs_ids_reversed(remote, names, job_ids, jobs_update_data, net_ok) ==
    UpdateFrom(1, remote, names,
               [i \in 1..Len(job_ids) |-> job_ids[Len(job_ids) + 1 - i]],
               jobs_update_data, net_ok)

update_jobs(remote, names, job_ids, jobs_update_data, net_ok) ==
    UpdateFrom(1, remote, names, job_ids, jobs_update_data, net_ok)

\* delete_jobs(token, url, jobs_ids) from item i: [ret, remote, calls]
RECURSIVE DeleteFrom(_, _, _, _)
DeleteFrom(i, remote, jobs_ids, net_ok) ==
    IF i > Len(jobs_ids)
    THEN [ret |-> TRUE, remote |-> remote, calls |-> <<>>]
    ELSE LET ok == Answers200(remote, jobs_ids[i], net_ok[i])
             after == IF ok THEN Without(remote, jobs_ids[i]) ELSE remote
             rest == DeleteFrom(i + 1, after, jobs_ids, net_ok)
         IN  [ret |-> ok /\ rest.ret,
              remote |-> rest.remote,
              calls |-> <<Call("delete", "", jobs_ids[i],
                               Get(remote, jobs_ids[i], ""), ok)>> \o rest.calls]

delete_jobs(remote, jobs_ids, net_ok) == DeleteFrom(1, remote, jobs_ids, net_ok)

\* create_jobs(existing_jobs, token, url, jobs_data) from item i; the service
\* gives a created job the identifier next_id: [ret, remote, next_id, calls]
RECURSIVE CreateFrom(_, _, _, _, _, _, _)
CreateFrom(i, remote, next_id, names, existing_jobs, jobs_data, net_ok) ==
    IF i > Len(jobs_data)
    THEN [ret |-> <<>>, remote |-> remote, next_id |-> next_id, calls |-> <<>>]
    ELSE LET job_name == jobs_data[i].name
         IN  IF ~InList(job_name, existing_jobs)
             THEN IF net_ok[i]
                  THEN LET rest == CreateFrom(i + 1, Put(remote, next_id, job_name),
                                              next_id + 1, names, existing_jobs,
                                              jobs_data, net_ok)
                       IN  [rest EXCEPT
                              !.ret = <<next_id>> \o @,
                              !.calls = <<Call("create", names[i], next_id,
                                               job_name, TRUE)>> \o @]
                  ELSE LET rest == CreateFrom(i + 1, remote, next_id, names,
                                              existing_jobs, jobs_data, net_ok)
                       IN  [rest EXCEPT
                              !.calls = <<Call("create", names[i], NoneId,
                                               job_name, FALSE)>> \o @]
             ELSE CreateFrom(i + 1, remote, next_id, names, existing_jobs,
                             jobs_data, net_ok)

\* create_jobs without the test on the existing names
create_jobs_ignoring_existing(remote, next_id, names, existing_jobs, jobs_data, net_ok) ==
    CreateFrom(1, remote, next_id, names, <<>>, jobs_data, net_ok)

create_jobs(remote, next_id, names, existing_jobs, jobs_data, net_ok) ==
    CreateFrom(1, remote, next_id, names, existing_jobs, jobs_data, net_ok)

\* the job names the list call collects, by ascending identifier up to i
RECURSIVE NamesUpTo(_, _)
NamesUpTo(remote, i) ==
    IF i = 0 THEN <<>>
    ELSE IF i \in DOMAIN remote THEN Append(NamesUpTo(remote, i - 1), remote[i])
         ELSE NamesUpTo(remote, i - 1)

\* get_jobs(token, url): None when the list call fails
get_jobs(remote, next_id, net_ok) ==
    IF net_ok THEN Some(NamesUpTo(remote, next_id)) ELSE None

\* ------------------------------------------------------------------- state
VARIABLES
    s3,                           \* the state store: S3 key -> content
    remote,                       \* the remote service: job identifier -> job name
    next_id,                      \* the identifier the service gives the next job
    desired,                      \* the workflows of the configuration file
    run,                          \* runs of run_workflow started so far
    pc,                           \* where the current run is
    exc,                          \* the exception that ended the run, or "none"
    extended_workflow_data,       \* locals of run_workflow
    workflow_data,
    state_file_workflow_details,
    existing_jobs_names,
    jobs_to_update,               \* the queue of the update phase
    update_status,                \* "unset", "True" or "False"
    jobs_to_delete,
    delete_status,
    new_job_ids,
    calls,                        \* the remote calls the run has issued
    writes,                       \* the calls of update_state_file in the run
    run_start_s3,                 \* the state store when the run started
    prev,                         \* what the previous run saw and did
    gv_input,                     \* the input of a version function called alone
    gv_result                     \* what that call returned

vars == <<s3, remote, next_id, desired, run, pc, exc, extended_workflow_data,
          workflow_data, state_file_workflow_details, existing_jobs_names,
          jobs_to_update, update_status, jobs_to_delete, delete_status,
          new_job_ids, calls, writes, run_start_s3, prev, gv_input, gv_result>>

runVars == <<s3, remote, next_id, desired, run, pc, exc, extended_workflow_data,
             workflow_data, state_file_workflow_details, existing_jobs_names,
             jobs_to_update, update_status, jobs_to_delete, delete_status,
             new_job_ids, calls, writes, run_start_s3, prev>>

\* -------------------------------------------------------------- initially
\* A workflow definition of the configuration file
WorkflowDefinitions == [job_name : JobNames, schedule : Schedules]

\* The configuration files: each workflow key absent or defined
DesiredConfigs ==
    UNION {[ws -> WorkflowDefinitions] : ws \in SUBSET Workflows}

\* An entry of a stored snapshot: a rendered job, and the job identifier
\* attached to it if one was
StoredEntries ==
    [name : JobNames, schedule : {"s1"}]
    \cup [name : JobNames, schedule : {"s1"}, job_id : SeedJobIds]

StoredConfigs == UNION {[ws -> StoredEntries] : ws \in SUBSET Workflows}

StoredVersions == {<<"1", ".", "0">>}

Snapshot(version, timestamp, config) ==
    [metadata |-> [version |-> version, timestamp |-> timestamp], config |-> config]

\* The state stores a run can find: empty, or holding a snapshot under the
\* current key and under the historic key of its version
Stores ==
    {EmptyDict} \cup
    {[k \in {CurrentKey, HistoricKey(v)} |-> json_dumps(Snapshot(v, 0, c))] :
        v \in StoredVersions, c \in StoredConfigs}

\* The remote services a run can find: each seed identifier free or a job
Remotes == UNION {[ids -> JobNames] : ids \in SUBSET SeedJobIds}

\* A stored snapshot records a job under the name the job has, if the job
\* still exists, and no two workflows under the same identifier
Recorded(store, rem) ==
    IF store = EmptyDict THEN TRUE
    ELSE LET config == json_loads(store[CurrentKey]).config
             has_id(w) == "job_id" \in DOMAIN config[w]
         IN  /\ \A w \in DOMAIN config :
                   has_id(w) /\ config[w].job_id \in DOMAIN rem
                       => rem[config[w].job_id] = config[w].name
             /\ \A w1, w2 \in DOMAIN config :
                   w1 # w2 /\ has_id(w1) /\ has_id(w2)
                       => config[w1].job_id # config[w2].job_id

FirstNewId == 1 + CHOOSE i \in SeedJobIds : \A j \in SeedJobIds : j <= i

NoRun ==
    [valid |-> FALSE, completed |-> FALSE, s3 |-> EmptyDict,
     existing_jobs_names |-> None, jobs_to_update |-> EmptyDict,
     update_status |-> "unset"]

UnsetResult == [exc |-> "unset", ret |-> <<>>]

LocalsInit ==
    /\ extended_workflow_data = EmptyDict
    /\ workflow_data = EmptyDict
    /\ state_file_workflow_details = EmptyDict
    /\ existing_jobs_names = None
    /\ jobs_to_update = EmptyDict
    /\ update_status = "unset"
    /\ jobs_to_delete = <<>>
    /\ delete_status = "unset"
    /\ new_job_ids = None
    /\ calls = <<>>
    /\ writes = <<>>

Init ==
    /\ s3 \in Stores
    /\ remote \in Remotes
    /\ Recorded(s3, remote)
    /\ next_id = FirstNewId
    /\ desired \in DesiredConfigs
    /\ run = 0
    /\ pc = "idle"
    /\ exc = "none"
    /\ LocalsInit
    /\ run_start_s3 = s3
    /\ prev = NoRun
    /\ gv_input = None
    /\ gv_result = UnsetResult

\* ----------------------------------------------------------------- actions
BoolStr(b) == IF b THEN "True" ELSE "False"

\* the version label stored under the current key, if there is one
StoredVersion(store) ==
    IF CurrentKey \in DOMAIN store /\ IsJson(store[CurrentKey])
    THEN Some(json_loads(store[CurrentKey]).metadata.version)
    ELSE None

\* update_state_file(update_extended_workflow_data_with_job_ids(...)) as the
\* three phases call it: attached is what the reattachment returned.  The
\* reattachment edits extended_workflow_data in place, so its edits stay when
\* update_state_file raises: [exc, ext, s3, writes]
Persist(phase, attached, store, now, get_ok, put_ok) ==
    IF attached.exc # "none"
    THEN [exc |-> attached.exc, ext |-> attached.ret, s3 |-> store, writes |-> <<>>]
    ELSE LET w == update_state_file(store, attached.ret, now, get_ok, put_ok)
         IN  [exc |-> w.exc, ext |-> attached.ret, s3 |-> w.s3,
              writes |-> <<[phase |-> phase, exc |-> w.exc, json |-> w.json,
                            puts |-> w.puts, prior |-> w.prior,
                            stored |-> StoredVersion(store)]>>]

\* a phase that did not call update_state_file
NoPersist(store, ext) ==
    [exc |-> "none", ext |-> ext, s3 |-> store, writes |-> <<>>]

\* what the next run remembers of the run that ended
RunSummary ==
    [valid |-> TRUE, completed |-> pc = "done", s3 |-> run_start_s3,
     existing_jobs_names |-> existing_jobs_names,
     jobs_to_update |-> jobs_to_update, update_status |-> update_status]

\* process_workflow (main.py:145-216), at the start of run_workflow.
\* read_json_file_from_s3 returns None for a key it cannot read, and
\* None.get raises AttributeError.
\* An exception of create_task_payload ends the run in the payload loop.
ProcessWorkflow ==
    /\ pc \in {"idle", "done", "aborted"}
    /\ run < MaxRuns
    /\ \E get_ok \in BOOLEAN :
          LET data == read_json_file_from_s3(s3, BUCKET_NAME, CurrentKey, get_ok)
              payload_exc == PayloadError(Keys(desired), desired)
          IN  /\ IF data.none \/ payload_exc # "none"
                 THEN /\ pc' = "aborted"
                      /\ exc' = IF data.exc # "none" THEN data.exc
                                ELSE IF data.none THEN "AttributeError"
                                ELSE payload_exc
                      /\ state_file_workflow_details' = EmptyDict
                      /\ workflow_data' = EmptyDict
                      /\ extended_workflow_data' = EmptyDict
                 ELSE /\ pc' = "get_jobs"
                      /\ exc' = "none"
                      /\ state_file_workflow_details' = Get(data.val, "config", EmptyDict)
                      /\ workflow_data' = desired
                      /\ extended_workflow_data' =
                             [w \in DOMAIN desired |-> RenderedJob(desired[w])]
    /\ run' = run + 1
    /\ prev' = IF run = 0 THEN NoRun ELSE RunSummary
    /\ run_start_s3' = s3
    /\ existing_jobs_names' = None
    /\ jobs_to_update' = EmptyDict
    /\ update_status' = "unset"
    /\ jobs_to_delete' = <<>>
    /\ delete_status' = "unset"
    /\ new_job_ids' = None
    /\ calls' = <<>>
    /\ writes' = <<>>
    /\ UNCHANGED <<s3, remote, next_id, desired, gv_input, gv_result>>

\* get_jobs (main.py:363)
GetJobs ==
    /\ pc = "get_jobs"
    /\ \E net_ok \in BOOLEAN :
          existing_jobs_names' = get_jobs(remote, next_id, net_ok)
    /\ pc' = "update"
    /\ UNCHANGED <<s3, remote, next_id, desired, run, exc, extended_workflow_data,
                   workflow_data, state_file_workflow_details, jobs_to_update,
                   update_status, jobs_to_delete, delete_status, new_job_ids,
                   calls, writes, run_start_s3, prev, gv_input, gv_result>>

\* a phase that writes the snapshot whatever its batch returned
persist_after_update_always(status) == TRUE
persist_after_delete_always(status) == TRUE

\* the phase's result decides the snapshot write (main.py:256, 293, 329)
PersistAfterUpdate(status) == status
PersistAfterDelete(status) == status
PersistAfterCreate(ids) == ids # <<>>

\* a gate that skips the create phase on an empty inventory only
create_attempted_without_inventory(names) == names.none \/ names.val # <<>>

\* the create phase is attempted (main.py:327)
CreateAttempted(names) == Truthy(names)

\* a run_workflow that calls the create phase before the delete phase
end_phase_create_before_delete(result, pc_next) ==
    /\ pc' = IF result.exc # "none" THEN "aborted"
             ELSE IF pc_next = "delete" THEN "create"
             ELSE IF pc_next = "done" THEN "delete"
             ELSE "done"
    /\ exc' = result.exc
    /\ extended_workflow_data' = result.ext
    /\ s3' = result.s3
    /\ writes' = writes \o result.writes

\* the end of a phase: the run goes on to pc_next unless the phase raised
EndPhase(result, pc_next) ==
    /\ pc' = IF result.exc = "none" THEN pc_next ELSE "aborted"
    /\ exc' = result.exc
    /\ extended_workflow_data' = result.ext
    /\ s3' = result.s3
    /\ writes' = writes \o result.writes

\* update_jobs_workflow (main.py:219-271)
UpdateJobsWorkflow ==
    /\ pc = "update"
    /\ LET queue == JobsToUpdate(extended_workflow_data, state_file_workflow_details)
           names == Keys(queue)
           job_ids_to_update == [i \in 1..Len(names) |-> queue[names[i]].job_id]
           job_data_to_update == [i \in 1..Len(names) |-> queue[names[i]].details]
       IN  /\ jobs_to_update' = queue
           /\ IF names # <<>>
              THEN \E o \in
                       {LET u == update_jobs(remote, names, job_ids_to_update,
                                             job_data_to_update, net_ok)
                        IN  [batch |-> u,
                             result |->
                                IF PersistAfterUpdate(u.ret)
                                THEN Persist("update",
                                         update_extended_workflow_data_with_job_ids(
                                             extended_workflow_data, workflow_data,
                                             state_file_workflow_details,
                                             existing_jobs_names, None),
                                         s3, run, get_ok, put_ok)
                                ELSE NoPersist(s3, extended_workflow_data)] :
                        net_ok \in [1..Len(names) -> BOOLEAN], get_ok \in BOOLEAN,
                        put_ok \in [1..2 -> BOOLEAN]} :
                     /\ remote' = o.batch.remote
                     /\ calls' = calls \o o.batch.calls
                     /\ update_status' = BoolStr(o.batch.ret)
                     /\ EndPhase(o.result, "delete")
              ELSE /\ EndPhase(NoPersist(s3, extended_workflow_data), "delete")
                   /\ UNCHANGED <<remote, calls, update_status>>
    /\ UNCHANGED <<next_id, desired, run, workflow_data, state_file_workflow_details,
                   existing_jobs_names, jobs_to_delete, delete_status, new_job_ids,
                   run_start_s3, prev, gv_input, gv_result>>

\* delete_jobs_workflow (main.py:274-309)
DeleteJobsWorkflow ==
    /\ pc = "delete"
    /\ LET removed == identify_removed_jobs(extended_workflow_data,
                                            state_file_workflow_details)
       IN  /\ jobs_to_delete' = removed
           /\ IF removed # <<>>
              THEN \E o \in
                       {LET d == delete_jobs(remote, removed, net_ok)
                        IN  [batch |-> d,
                             result |->
                                IF PersistAfterDelete(d.ret)
                                THEN Persist("delete",
                                         update_extended_workflow_data_with_job_ids(
                                             extended_workflow_data, workflow_data,
                                             state_file_workflow_details,
                                             existing_jobs_names, None),
                                         s3, run, get_ok, put_ok)
                                ELSE NoPersist(s3, extended_workflow_data)] :
                        net_ok \in [1..Len(removed) -> BOOLEAN], get_ok \in BOOLEAN,
                        put_ok \in [1..2 -> BOOLEAN]} :
                     /\ remote' = o.batch.remote
                     /\ calls' = calls \o o.batch.calls
                     /\ delete_status' = BoolStr(o.batch.ret)
                     /\ EndPhase(o.result, "create")
              ELSE /\ EndPhase(NoPersist(s3, extended_workflow_data), "create")
                   /\ UNCHANGED <<remote, calls, delete_status>>
    /\ UNCHANGED <<next_id, desired, run, workflow_data, state_file_workflow_details,
                   existing_jobs_names, jobs_to_update, update_status, new_job_ids,
                   run_start_s3, prev, gv_input, gv_result>>

\* create_jobs_workflow (main.py:312-346); the run ends after it
CreateJobsWorkflow ==
    /\ pc = "create"
    /\ LET names == Keys(extended_workflow_data)
           jobs_data == [i \in 1..Len(names) |-> extended_workflow_data[names[i]]]
       IN  IF CreateAttempted(existing_jobs_names)
           THEN \E o \in
                    {LET c == create_jobs(remote, next_id, names,
                                          existing_jobs_names.val, jobs_data, net_ok)
                     IN  [batch |-> c,
                          result |->
                             IF PersistAfterCreate(c.ret)
                             THEN Persist("create",
                                      update_extended_workflow_data_with_job_ids(
                                          extended_workflow_data, workflow_data,
                                          state_file_workflow_details,
                                          existing_jobs_names, Some(c.ret)),
                                      s3, run, get_ok, put_ok)
                             ELSE NoPersist(s3, extended_workflow_data)] :
                     net_ok \in [1..Len(names) -> BOOLEAN], get_ok \in BOOLEAN,
                     put_ok \in [1..2 -> BOOLEAN]} :
                  /\ remote' = o.batch.remote
                  /\ next_id' = o.batch.next_id
                  /\ calls' = calls \o o.batch.calls
                  /\ new_job_ids' = Some(o.batch.ret)
                  /\ EndPhase(o.result, "done")
           ELSE /\ EndPhase(NoPersist(s3, extended_workflow_data), "done")
                /\ UNCHANGED <<remote, next_id, calls, new_job_ids>>
    /\ UNCHANGED <<desired, run, workflow_data, state_file_workflow_details,
                   existing_jobs_names, jobs_to_update, update_status,
                   jobs_to_delete, delete_status, run_start_s3, prev,
                   gv_input, gv_result>>

Next ==
    \/ ProcessWorkflow
    \/ GetJobs
    \/ UpdateJobsWorkflow
    \/ DeleteJobsWorkflow
    \/ CreateJobsWorkflow

Spec == Init /\ [][Next]_vars

\* ------------------------------------------------- generate_version alone
\* The strings generate_version is given: None, and every string of at most
\* MaxLen version characters
VersionInputs ==
    {None} \cup {Some(str) : str \in UNION {[1..n -> VersionChars] : n \in 0..MaxLen}}

VersionInit ==
    /\ gv_input \in VersionInputs
    /\ gv_result = UnsetResult
    /\ s3 = EmptyDict
    /\ remote = EmptyDict
    /\ next_id = FirstNewId
    /\ desired = EmptyDict
    /\ run = 0
    /\ pc = "idle"
    /\ exc = "none"
    /\ LocalsInit
    /\ run_start_s3 = EmptyDict
    /\ prev = NoRun

GenerateVersion ==
    /\ gv_result = UnsetResult
    /\ gv_result' = generate_version(gv_input)
    /\ UNCHANGED <<gv_input, runVars>>

VersionNext == GenerateVersion

VersionSpec == VersionInit /\ [][VersionNext]_vars

\* ------------------------------------------- run_workflow on task configs
\* The task configurations of a workflow definition
TaskConfigs ==
    [task_name : {"", "t1"},
     tasktype : TaskTypeNames \cup {"SHELL"},
     filepath : {"", "f.py"},
     cluster_config_path : {"", "cluster.json", "missing.json", "malformed.json"}]

ValidTask ==
    [task_name |-> "t1", tasktype |-> "NOTEBOOK", filepath |-> "f.py",
     cluster_config_path |-> ""]

\* The task lists: one task, or a task after a valid one
TaskLists == {<<t>> : t \in TaskConfigs} \cup {<<ValidTask, t>> : t \in TaskConfigs}

TaskedDefinitions == [job_name : {"alpha"}, schedule : {"s1"}, tasks : TaskLists]

\* The configuration files: one workflow with tasks, alone or beside a
\* workflow without tasks
ValidationConfigs ==
    {[w \in {t} |-> d] : t \in Workflows, d \in TaskedDefinitions}
    \cup {[w \in Workflows |->
              IF w = t THEN d ELSE [job_name |-> "beta", schedule |-> "s1"]] :
            t \in Workflows, d \in TaskedDefinitions}

\* The state stores and the remote service of these runs
ValidationStores ==
    {EmptyDict} \cup
    {[k \in {CurrentKey, HistoricKey(v)} |-> json_dumps(Snapshot(v, 0, c))] :
        v \in StoredVersions,
        c \in {EmptyDict,
               [w \in {"workflow2"} |->
                   [name |-> "beta", schedule |-> "s1", job_id |-> 2]]}}

ValidationRemote == [id \in {2} |-> "beta"]

ValidationInit ==
    /\ s3 \in ValidationStores
    /\ remote = ValidationRemote
    /\ next_id = FirstNewId
    /\ desired \in ValidationConfigs
    /\ run = 0
    /\ pc = "idle"
    /\ exc = "none"
    /\ LocalsInit
    /\ run_start_s3 = s3
    /\ prev = NoRun
    /\ gv_input = None
    /\ gv_result = UnsetResult

ValidationSpec == ValidationInit /\ [][Next]_vars

\* ------------------------------------------------ update_state_file alone
\* The state stores update_state_file can find: empty, or holding a snapshot
\* whose version label is any string of at most MaxLen version characters
StateFileVersions == UNION {[1..n -> VersionChars] : n \in 0..MaxLen}

StateFileStores ==
    {EmptyDict} \cup
    {[k \in {CurrentKey, HistoricKey(v)} |-> json_dumps(Snapshot(v, 0, EmptyDict))] :
        v \in StateFileVersions}

\* The maps update_state_file is given
StateFileConfigs ==
    {EmptyDict, [w \in {"workflow1"} |-> [name |-> "alpha", schedule |-> "s1", job_id |-> 1]]}

StateFileInit ==
    /\ s3 \in StateFileStores
    /\ remote = EmptyDict
    /\ next_id = FirstNewId
    /\ desired = EmptyDict
    /\ run = 0
    /\ pc = "idle"
    /\ exc = "none"
    /\ LocalsInit
    /\ run_start_s3 = s3
    /\ prev = NoRun
    /\ gv_input = None
    /\ gv_result = UnsetResult

\* update_state_file (main.py:100-119), called once on the store
UpdateStateFile ==
    /\ pc = "idle"
    /\ \E o \in {Persist("update_state_file", [exc |-> "none", ret |-> ext],
                         s3, 1, get_ok, put_ok) :
                    ext \in StateFileConfigs, get_ok \in BOOLEAN,
                    put_ok \in [1..2 -> BOOLEAN]} :
          EndPhase(o, "done")
    /\ UNCHANGED <<remote, next_id, desired, run, workflow_data,
                   state_file_workflow_details, existing_jobs_names,
                   jobs_to_update, update_status, jobs_to_delete, delete_status,
                   new_job_ids, calls, run_start_s3, prev, gv_input, gv_result>>

\* get_current_version (version_utils.py:31-55), called once on the store;
\* gv_input is the version label a read of the current key gives (None when
\* the read fails or there is no snapshot), gv_result what the call did
GetCurrentVersion ==
    /\ pc = "idle"
    /\ gv_result.exc = "unset"
    /\ \E get_ok \in BOOLEAN :
          /\ gv_input' = IF get_ok THEN StoredVersion(s3) ELSE None
          /\ gv_result' = get_current_version(s3, BUCKET_NAME, CurrentKey, get_ok)
    /\ UNCHANGED runVars

StateFileNext ==
    \/ UpdateStateFile
    \/ GetCurrentVersion

StateFileSpec == StateFileInit /\ [][StateFileNext]_vars

\* ------------------------------------------------------------------ claims
\* the stored entry of a workflow without its job identifier
StripJobId(entry) == Without(entry, "job_id")

\* the last-applied entry of workflow w as the run read it
LastApplied(w) == Get(state_file_workflow_details, w, EmptyDict)

\* the desired job of workflow w is deep-equal to its last-applied job
Unchanged(w) == RenderedJob(workflow_data[w]) = StripJobId(LastApplied(w))

\* the update phase of the current run is over
UpdatePhaseOver == pc \in {"delete", "create", "done"} \/ update_status # "unset"

\* the run has ended, normally or by an exception
RunOver == run >= 1 /\ pc \in {"done", "aborted"}

\* the previous run completed, and this run found the state store and the
\* remote inventory as the previous run did (the configuration never changes)
RepeatsPrev ==
    /\ prev.valid
    /\ prev.s3 = run_start_s3
    /\ ~existing_jobs_names.none
    /\ prev.existing_jobs_names = existing_jobs_names

\* C1: idempotence of run_workflow.  When a run completed and the next run
\* finds the configuration, the remote inventory and the snapshot as that run
\* did, the next run issues no update, delete or create call.  Stated for the
\* case where every desired job equals its last-applied job and is live, and
\* no workflow was removed, so that no run has anything to apply or to retry.
C1_Idempotence ==
    ( /\ RepeatsPrev
      /\ prev.completed
      /\ DOMAIN state_file_workflow_details = DOMAIN workflow_data
      /\ \A w \in DOMAIN workflow_data :
            /\ Unchanged(w)
            /\ InList(workflow_data[w].job_name, existing_jobs_names.val) )
    => calls = <<>>

\* a batch of the current run succeeded
UpdateSucceeded == update_status = "True"
DeleteSucceeded == delete_status = "True"
CreateSucceeded == Truthy(new_job_ids)

\* C2: no blind writes.  update_state_file is called only by a phase whose
\* remote mutation succeeded (the update batch returned true, the delete
\* batch returned true, the create batch returned an identifier), and a run
\* in which no remote mutation succeeded calls it never and leaves the
\* current snapshot and the historic collection as they were.
C2_NoBlindWrites ==
    /\ \A i \in DOMAIN writes :
          \/ writes[i].phase = "update" /\ UpdateSucceeded
          \/ writes[i].phase = "delete" /\ DeleteSucceeded
          \/ writes[i].phase = "create" /\ CreateSucceeded
    /\ ~(UpdateSucceeded \/ DeleteSucceeded \/ CreateSucceeded)
          => writes = <<>> /\ s3 = run_start_s3

\* C2 witness: the update batch returned true and the update phase called
\* update_state_file, which built a snapshot and called write_json_to_s3
C2_Witness ==
    /\ UpdateSucceeded
    /\ writes # <<>>
    /\ writes[1].phase = "update"
    /\ writes[1].puts # <<>>

\* the update calls of the current run, as the workflows they were issued for
UpdatedWorkflows ==
    {calls[i].workflow : i \in {j \in DOMAIN calls : calls[j].op = "update"}}

\* C3: when the update batch returns false the update phase writes no
\* snapshot, and a repeat run with the same configuration, stored snapshot and
\* inventory queues the same updates and issues them again.
C3_FailedUpdateRetried ==
    /\ update_status = "False"
          => /\ \A i \in DOMAIN writes : writes[i].phase # "update"
             /\ pc = "delete" => writes = <<>> /\ s3 = run_start_s3
    /\ (RepeatsPrev /\ prev.update_status = "False" /\ UpdatePhaseOver)
          => /\ jobs_to_update = prev.jobs_to_update
             /\ UpdatedWorkflows = DOMAIN prev.jobs_to_update

\* C3 witness: the update batch of the previous run returned false, and the
\* update phase of this run, on the same inputs, has queued the same updates
C3_Witness ==
    /\ RepeatsPrev
    /\ prev.update_status = "False"
    /\ UpdatePhaseOver
    /\ jobs_to_update # EmptyDict
    /\ jobs_to_update = prev.jobs_to_update
    /\ writes = <<>>

\* workflow w was applied in the current run: created or updated remotely,
\* or already equal to its last-applied job
Applied(w) ==
    \/ w \in DOMAIN state_file_workflow_details /\ Unchanged(w)
    \/ \E i \in DOMAIN calls :
          /\ calls[i].op \in {"update", "create"}
          /\ calls[i].workflow = w
          /\ calls[i].ok

\* C4: every snapshot update_state_file builds and hands to write_json_to_s3
\* records successfully applied jobs only: each workflow of its config was
\* created or updated remotely in the run or was already unchanged.
C4_SnapshotRecordsAppliedOnly ==
    \A i \in DOMAIN writes :
        ~writes[i].json.none
            => \A w \in DOMAIN writes[i].json.val.config : Applied(w)

\* C5: phase A classification.  Once the update phase is over, a desired
\* workflow is queued for update, and an update call was issued for it, if and
\* only if its desired job differs from its last-applied job, the attached job
\* identifier left out of the comparison.
C5_PhaseAClassification ==
    UpdatePhaseOver
        => \A w \in DOMAIN workflow_data :
              /\ w \in DOMAIN jobs_to_update <=> ~Unchanged(w)
              /\ w \in UpdatedWorkflows <=> ~Unchanged(w)

\* the remote jobs are those desired: every desired display name is the name
\* of a remote job, and no job recorded for a removed workflow exists
Converged ==
    /\ \A w \in DOMAIN workflow_data :
          \E id \in DOMAIN remote : remote[id] = workflow_data[w].job_name
    /\ \A w \in DOMAIN state_file_workflow_details \ DOMAIN workflow_data :
          "job_id" \in DOMAIN state_file_workflow_details[w]
              => state_file_workflow_details[w].job_id \notin DOMAIN remote

\* C6: convergence.  After a run in which the inventory retrieval, every
\* remote call and every state-store call succeeded, the remote jobs are
\* those desired.
C6_Convergence ==
    ( /\ run >= 1
      /\ pc = "done"
      /\ ~existing_jobs_names.none
      /\ \A i \in DOMAIN calls : calls[i].ok
      /\ \A i \in DOMAIN writes : writes[i].exc = "none" )
    => Converged

\* the snapshot under the current key, if there is one
CurrentSnapshot == read_json_file_from_s3(s3, BUCKET_NAME, CurrentKey, TRUE)

\* C7: the create scenario.  With workflow1 (job_name "alpha") the only
\* desired workflow, an empty last snapshot and an inventory retrieved but
\* empty, the run issues a create call for "alpha", and when the call returns
\* an identifier the current snapshot has the successor of the stored version
\* and holds workflow1 with that identifier.
C7_CreateScenario ==
    ( /\ RunOver
      /\ DOMAIN workflow_data = {"workflow1"}
      /\ workflow_data["workflow1"].job_name = "alpha"
      /\ state_file_workflow_details = EmptyDict
      /\ existing_jobs_names = Some(<<>>) )
    => \E i \in DOMAIN calls :
          /\ calls[i].op = "create"
          /\ calls[i].name = "alpha"
          /\ calls[i].ok
                => /\ ~CurrentSnapshot.none
                   /\ CurrentSnapshot.val.metadata.version
                          = generate_version(StoredVersion(run_start_s3)).ret
                   /\ "workflow1" \in DOMAIN CurrentSnapshot.val.config
                   /\ Get(CurrentSnapshot.val.config["workflow1"], "job_id", NoneId)
                          = calls[i].job_id

\* C8: each call of update_state_file gives its snapshot the version
\* generate_version computes from the version stored in the current snapshot
\* at that moment, so the new label differs from the stored one.
C8_VersionsIncrease ==
    \A i \in DOMAIN writes :
        (~writes[i].json.none /\ ~writes[i].stored.none)
            => /\ writes[i].json.val.metadata.version
                      = generate_version(writes[i].stored).ret
               /\ writes[i].json.val.metadata.version # writes[i].stored.val

\* the version label "M.m"
Label(major, minor) == IntToStr(major) \o <<".">> \o IntToStr(minor)

\* C9: generate_version.  Without a current version (None or empty) the result
\* is "1.0"; for the label of integers M and m it is "(M+1).0" when m is 9 and
\* "M.(m+1)" otherwise, so "1.9" gives "2.0" and "3.4" gives "3.5".
C9_GenerateVersion ==
    gv_result # UnsetResult
        => /\ ~Truthy(gv_input)
                 => gv_result = [exc |-> "none", ret |-> <<"1", ".", "0">>]
           /\ \A major, minor \in 0..99 :
                 gv_input = Some(Label(major, minor))
                     => gv_result =
                            [exc |-> "none",
                             ret |-> IF minor = 9 THEN Label(major + 1, 0)
                                     ELSE Label(major, minor + 1)]
           /\ gv_input = Some(<<"1", ".", "9">>) => gv_result.ret = <<"2", ".", "0">>
           /\ gv_input = Some(<<"3", ".", "4">>) => gv_result.ret = <<"3", ".", "5">>

\* C9 witness: generate_version was given "1.9" and returned "2.0"
C9_Witness ==
    /\ gv_input = Some(<<"1", ".", "9">>)
    /\ gv_result = [exc |-> "none", ret |-> <<"2", ".", "0">>]

\* C10: round trip.  After update_state_file has built a snapshot and gone
\* through its writes, reading the current key gives an object equal to that
\* snapshot.
C10_RoundTrip ==
    \A i \in DOMAIN writes :
        (i = Len(writes) /\ ~writes[i].json.none)
            => /\ ~CurrentSnapshot.none
               /\ CurrentSnapshot.val = writes[i].json.val

\* the keys of the historic collection in a store
HistoricKeys(store) == DOMAIN store \ {CurrentKey}

\* the snapshot update_state_file built in its i-th call of the run
Built(i) == writes[i].json.val

\* C11: the historic collection is append-only with one blob per version
\* label, and each snapshot write overwrites the one current snapshot.  No
\* historic blob the run found is changed or deleted, and when
\* update_state_file has built a snapshot and gone through its writes, the
\* historic blob of the snapshot's label and the current snapshot are that
\* snapshot.
C11_HistoricAppendOnly ==
    /\ \A k \in HistoricKeys(run_start_s3) :
          k \in DOMAIN s3 /\ s3[k] = run_start_s3[k]
    /\ \A i \in DOMAIN writes :
          (i = Len(writes) /\ ~writes[i].json.none)
              => /\ HistoricKey(Built(i).metadata.version) \in DOMAIN s3
                 /\ s3[HistoricKey(Built(i).metadata.version)] = json_dumps(Built(i))
                 /\ CurrentKey \in DOMAIN s3
                 /\ s3[CurrentKey] = json_dumps(Built(i))

\* the display name of desired workflow w is in the inventory the run retrieved
Live(w) ==
    /\ ~existing_jobs_names.none
    /\ InList(workflow_data[w].job_name, existing_jobs_names.val)

\* C12: in every snapshot update_state_file builds, each desired workflow
\* whose display name is in the live inventory has a job identifier attached
\* that is not None.
C12_LiveWorkflowsHaveIds ==
    \A i \in DOMAIN writes :
        ~writes[i].json.none
            => \A w \in DOMAIN workflow_data :
                  Live(w)
                      => /\ w \in DOMAIN Built(i).config
                         /\ Get(Built(i).config[w], "job_id", NoneId) # NoneId

\* the create calls of the current run
CreateCalls == {i \in DOMAIN calls : calls[i].op = "create"}

\* get_jobs of the current run returned None: the run is past get_jobs (only
\* process_workflow raises AttributeError) and holds no inventory
InventoryFailed ==
    /\ existing_jobs_names.none
    /\ \/ pc \in {"update", "delete", "create", "done"}
       \/ pc = "aborted" /\ exc # "AttributeError"

\* C13: the gate of the create phase.  A run whose inventory call returned
\* None issues no create call; a create call is issued only in a run whose
\* inventory call returned a list.
C13_CreateGate ==
    /\ InventoryFailed => CreateCalls = {}
    /\ CreateCalls # {} => ~existing_jobs_names.none

\* C13 witness: a run whose inventory call returned None went through the
\* create phase with a desired job that no remote job has the name of, and
\* issued no create call
C13_Witness ==
    /\ InventoryFailed
    /\ pc = "done"
    /\ \E w \in DOMAIN workflow_data :
          \A id \in DOMAIN remote : remote[id] # workflow_data[w].job_name
    /\ CreateCalls = {}

\* update_state_file was called by the given phase of the current run
Wrote(phase) == \E i \in DOMAIN writes : writes[i].phase = phase

\* C14: a run whose inventory call returned None is not ended by an error in
\* its update and delete phases: when the update batch or the delete batch
\* succeeds the phase calls update_state_file and the run goes on.
C14_PhasesProceedWithoutInventory ==
    InventoryFailed
        => /\ pc # "aborted"
           /\ UpdateSucceeded => Wrote("update")
           /\ DeleteSucceeded => Wrote("delete")

\* process_workflow raised on the None that read_json_file_from_s3 returned
\* for the current snapshot (main.py:160-163); nothing else in a run raises
\* AttributeError
ReadFailureRaised == pc = "aborted" /\ exc = "AttributeError"

\* C15: a read failure on the last-applied snapshot is treated like no prior
\* state: process_workflow raises no error, and the run goes on with an
\* empty last-applied config map.
C15_ReadFailureIsNoPriorState ==
    /\ ~ReadFailureRaised
    /\ (run >= 1 /\ CurrentKey \notin DOMAIN run_start_s3)
          => pc # "aborted" /\ state_file_workflow_details = EmptyDict

\* generate_version raises on the version label v
Malformed(v) == generate_version(Some(v)).exc # "none"

\* C16: a malformed version label stored in the current snapshot makes
\* update_state_file fail when the next version is computed, without a
\* snapshot labelled by fallback; when there is no current snapshot the
\* snapshot built is labelled "1.0".
C16_MalformedVersionPropagates ==
    \A i \in DOMAIN writes :
        /\ (~writes[i].stored.none /\ Malformed(writes[i].stored.val))
              => writes[i].exc # "none" /\ writes[i].json.none
        /\ writes[i].stored.none
              => /\ ~writes[i].json.none
                 /\ Built(i).metadata.version = <<"1", ".", "0">>

\* the position of workflow w in the iteration order of the dicts
OrderIndex(w) == CHOOSE i \in DOMAIN WorkflowOrder : WorkflowOrder[i] = w

\* the position of w among the workflows of the set ws, in iteration order
Rank(w, ws) == Cardinality({v \in ws : OrderIndex(v) <= OrderIndex(w)})

\* the delete phase of the current run has computed its queue
DeletePhaseOver == pc \in {"create", "done"} \/ delete_status # "unset"

\* the keys of the last snapshot that are absent from the desired set
RemovedKeys == DOMAIN state_file_workflow_details \ DOMAIN extended_workflow_data

\* the job identifier the last snapshot stores for workflow w, None if none
StoredId(w) ==
    IF w \in DOMAIN state_file_workflow_details
       /\ "job_id" \in DOMAIN state_file_workflow_details[w]
    THEN state_file_workflow_details[w].job_id
    ELSE NoneId

\* C17: identify_removed_jobs.  The queue of the delete phase has one entry
\* for each key of the last snapshot that is absent from the desired set, in
\* snapshot order, and the entry is the stored job identifier (None when the
\* entry stores none); keys that are desired contribute nothing, so a
\* snapshot {workflow1: id1, workflow2: id2} with workflow1 desired gives
\* [id2].
C17_IdentifyRemovedJobs ==
    DeletePhaseOver
        => /\ Len(jobs_to_delete) = Cardinality(RemovedKeys)
           /\ \A w \in RemovedKeys :
                 jobs_to_delete[Rank(w, RemovedKeys)] = StoredId(w)
           /\ ( /\ DOMAIN state_file_workflow_details = {"workflow1", "workflow2"}
                /\ DOMAIN extended_workflow_data = {"workflow1"} )
                 => jobs_to_delete = <<StoredId("workflow2")>>

\* C17 witness: the last snapshot stores workflow1 with job 1 and workflow2
\* with job 2, only workflow1 is desired, and the queue is [2]
C17_Witness ==
    /\ DeletePhaseOver
    /\ DOMAIN state_file_workflow_details = {"workflow1", "workflow2"}
    /\ DOMAIN extended_workflow_data = {"workflow1"}
    /\ StoredId("workflow1") = 1
    /\ StoredId("workflow2") = 2
    /\ jobs_to_delete = <<2>>

\* the desired workflows whose display name is not in the inventory
NotLive == {w \in DOMAIN workflow_data : ~Live(w)}

\* the job identifier attached to workflow w in extended_workflow_data
HasJobId(w) == "job_id" \in DOMAIN extended_workflow_data[w]
AttachedId(w) == extended_workflow_data[w].job_id

\* C18: update_extended_workflow_data_with_job_ids.  After the create phase
\* reattached with the identifiers create_jobs returned, a desired workflow
\* whose name is live has the identifier the last snapshot stores for it
\* (None if it stores none), and the workflows whose name is not live have
\* the fresh identifiers in FIFO order, those beyond the queue having none.
\* After the update or the delete phase reattached, without fresh
\* identifiers, the workflows whose name is not live have none.
C18_AttachIds ==
    /\ CreateSucceeded
          => \A w \in DOMAIN workflow_data :
                IF Live(w)
                THEN HasJobId(w) /\ AttachedId(w) = StoredId(w)
                ELSE IF Rank(w, NotLive) <= Len(new_job_ids.val)
                     THEN /\ HasJobId(w)
                          /\ AttachedId(w) = new_job_ids.val[Rank(w, NotLive)]
                     ELSE ~HasJobId(w)
    /\ ((UpdateSucceeded \/ DeleteSucceeded) /\ ~existing_jobs_names.none)
          => \A w \in DOMAIN workflow_data :
                IF Live(w)
                THEN HasJobId(w) /\ AttachedId(w) = StoredId(w)
                ELSE ~HasJobId(w)

\* C18 witness: the create phase returned one fresh identifier; the live
\* workflow1 kept job 1 of the last snapshot and workflow2 got the fresh one
C18_Witness ==
    /\ CreateSucceeded
    /\ DOMAIN workflow_data = {"workflow1", "workflow2"}
    /\ Live("workflow1")
    /\ ~Live("workflow2")
    /\ AttachedId("workflow1") = 1
    /\ AttachedId("workflow2") = Head(new_job_ids.val)

\* the update and the delete calls of the current run
UpdateCalls == {i \in DOMAIN calls : calls[i].op = "update"}
DeleteCalls == {i \in DOMAIN calls : calls[i].op = "delete"}

\* C19: attempt-all batches.  update_jobs issues one call for every queued
\* update and delete_jobs one call for every queued identifier, whatever the
\* earlier items returned; the batch returns true exactly when every one of
\* its calls succeeded; and an exception ends a run only in process_workflow
\* or after a batch that succeeded, never after a failed item.
C19_AttemptAll ==
    /\ UpdatePhaseOver
          => /\ Cardinality(UpdateCalls) = Cardinality(DOMAIN jobs_to_update)
             /\ \A w \in DOMAIN jobs_to_update : w \in UpdatedWorkflows
             /\ jobs_to_update # EmptyDict
                   => (UpdateSucceeded <=> \A i \in UpdateCalls : calls[i].ok)
    /\ DeletePhaseOver
          => /\ Cardinality(DeleteCalls) = Len(jobs_to_delete)
             /\ \A i \in DeleteCalls :
                   calls[i].job_id
                       = jobs_to_delete[Cardinality({j \in DeleteCalls : j <= i})]
             /\ jobs_to_delete # <<>>
                   => (DeleteSucceeded <=> \A i \in DeleteCalls : calls[i].ok)
    /\ pc = "aborted"
          => \/ ReadFailureRaised
             \/ UpdateSucceeded \/ DeleteSucceeded \/ CreateSucceeded

\* C19 witness: the first update call of a batch of two failed, the second
\* was issued and succeeded, the batch returned false and the run went on
C19_Witness ==
    /\ Len(calls) >= 2
    /\ calls[1].op = "update" /\ ~calls[1].ok
    /\ calls[2].op = "update" /\ calls[2].ok
    /\ update_status = "False"
    /\ pc = "delete"

\* the create calls that returned an identifier
CreatedCalls == {i \in CreateCalls : calls[i].ok}

\* C20: create_jobs.  No create call is issued for a payload whose name is
\* in the existing names, one is issued for every other payload, in payload
\* order, and the list returned holds the identifiers of the jobs that were
\* created, in that order.
C20_CreateJobs ==
    /\ \A i \in CreateCalls :
          ~InList(calls[i].name, existing_jobs_names.val)
    /\ ~new_job_ids.none
          => /\ Cardinality(CreateCalls) = Cardinality(NotLive)
             /\ \A w \in NotLive :
                   \E i \in CreateCalls :
                      /\ calls[i].workflow = w
                      /\ calls[i].name = workflow_data[w].job_name
                      /\ Cardinality({j \in CreateCalls : j <= i}) = Rank(w, NotLive)
             /\ Len(new_job_ids.val) = Cardinality(CreatedCalls)
             /\ \A i \in CreatedCalls :
                   /\ new_job_ids.val[Cardinality({j \in CreatedCalls : j <= i})]
                          = calls[i].job_id
                   /\ calls[i].job_id \in DOMAIN remote
                   /\ remote[calls[i].job_id] = calls[i].name

\* C20 witness: of two payloads the one named as an existing job was skipped
\* and the other was created, and its identifier is the list returned
C20_Witness ==
    /\ ~new_job_ids.none
    /\ DOMAIN workflow_data = {"workflow1", "workflow2"}
    /\ Live("workflow1")
    /\ ~Live("workflow2")
    /\ Cardinality(CreateCalls) = 1
    /\ \E i \in CreatedCalls :
          calls[i].workflow = "workflow2" /\ new_job_ids.val = <<calls[i].job_id>>

\* C21: phase B.  When workflows of the last snapshot are absent from the
\* desired set, delete_jobs is called once with the identifiers of them all;
\* when the batch succeeds the current snapshot is a new snapshot, built by
\* the delete phase, whose config holds none of the removed workflows; when
\* the batch fails the delete phase writes no snapshot.
C21_PhaseB ==
    DeletePhaseOver
        => /\ RemovedKeys # {}
                => /\ delete_status # "unset"
                   /\ Cardinality(DeleteCalls) = Cardinality(RemovedKeys)
           /\ DeleteSucceeded
                => \E i \in DOMAIN writes :
                      /\ writes[i].phase = "delete"
                      /\ ~writes[i].json.none
                      /\ DOMAIN Built(i).config \cap RemovedKeys = {}
                      /\ CurrentKey \in DOMAIN s3
                      /\ s3[CurrentKey] = json_dumps(Built(i))
           /\ delete_status = "False" => ~Wrote("delete")

\* the place of a remote call's phase in the order of the phases
PhaseRank(op) == IF op = "update" THEN 1 ELSE IF op = "delete" THEN 2 ELSE 3

\* the config of the snapshot the run found under the current key
ConfigAtStart ==
    Get(read_json_file_from_s3(run_start_s3, BUCKET_NAME, CurrentKey, TRUE).val,
        "config", EmptyDict)

\* C23: phase ordering.  The remote calls of a run are issued in the order
\* update, delete, create: no delete call before the update phase is over, no
\* create call before the delete phase is over; and the three phases work on
\* the desired map and the last snapshot the run read at its start.
C23_PhaseOrder ==
    /\ \A i, j \in DOMAIN calls :
          i < j => PhaseRank(calls[i].op) <= PhaseRank(calls[j].op)
    /\ DeleteCalls # {} => pc \notin {"get_jobs", "update"}
    /\ CreateCalls # {} => pc \notin {"get_jobs", "update", "delete"}
    /\ pc \in {"update", "delete", "create"}
          => /\ workflow_data = desired
             /\ state_file_workflow_details = ConfigAtStart

\* C23 witness: a run issued an update call, then a delete call, then a
\* create call
C23_Witness ==
    \E i, j, k \in DOMAIN calls :
        /\ i < j /\ j < k
        /\ calls[i].op = "update"
        /\ calls[j].op = "delete"
        /\ calls[k].op = "create"

\* C24: update pairing.  Each queued workflow gets one update call, and the
\* call carries the job identifier the last snapshot records for that
\* workflow (None if none) with that workflow's own desired payload.
C24_UpdatePairing ==
    /\ \A i \in UpdateCalls :
          /\ calls[i].workflow \in DOMAIN workflow_data
          /\ calls[i].job_id = StoredId(calls[i].workflow)
          /\ calls[i].name = workflow_data[calls[i].workflow].job_name
    /\ \A i, j \in UpdateCalls : calls[i].workflow = calls[j].workflow => i = j

\* C24 witness: a batch of two updates, for workflows recorded with different
\* identifiers and desired under different names
C24_Witness ==
    /\ Cardinality(UpdateCalls) = 2
    /\ calls[1].job_id # NoneId
    /\ calls[2].job_id # NoneId
    /\ calls[1].job_id # calls[2].job_id
    /\ calls[1].name # calls[2].name

\* C27: pairing of fresh identifiers.  After the create phase reattached, the
\* identifier attached to a workflow whose name was not live is the
\* identifier the create call for that workflow returned.
C27_FreshIdPairing ==
    CreateSucceeded
        => \A w \in NotLive :
              HasJobId(w)
                  => \E i \in CreatedCalls :
                        calls[i].workflow = w /\ calls[i].job_id = AttachedId(w)

\* C28: the delete phase deletes only jobs that are no longer desired: no
\* delete call succeeds on a remote job whose display name is the display
\* name of a desired workflow.
C28_DeleteOnlyUndesired ==
    \A i \in DeleteCalls :
        calls[i].ok
            => \A w \in DOMAIN workflow_data :
                  workflow_data[w].job_name # calls[i].name

C25_WriteRaisesOnEmptyOnly ==
    \A i \in DOMAIN writes :
        ~writes[i].json.none
            => /\ BUCKET_NAME # ""
               /\ writes[i].exc # "ValueError"
               /\ writes[i].puts
                      = <<HistoricKey(Built(i).metadata.version), CurrentKey>>

\* C26: get_current_version returns the version label stored in the current
\* snapshot when the snapshot can be read, and returns None without raising
\* when it cannot.
C26_GetCurrentVersion ==
    gv_result.exc # "unset"
        => /\ gv_result.exc = "none"
           /\ gv_result.ret = gv_input

\* a task that lacks task_name or filepath, names no task type, or names a
\* cluster config file that is missing or malformed
InvalidTask(t) ==
    \/ t.task_name = ""
    \/ t.filepath = ""
    \/ t.tasktype \notin {"NOTEBOOK", "PYTHON", "SQL", "DBT"}
    \/ t.cluster_config_path \in {"missing.json", "malformed.json"}

\* the configuration file has an invalid task
HasInvalidTask ==
    \E w \in DOMAIN desired :
        \E i \in DOMAIN TasksOf(desired[w]) : InvalidTask(TasksOf(desired[w])[i])

\* C22: validation errors.  A run on a configuration with an invalid task is
\* ended by an exception in process_workflow: it lists no jobs, issues no
\* update, delete or create call, writes no snapshot and leaves the store and
\* the remote jobs as they were.
C22_ValidationAborts ==
    (run >= 1 /\ HasInvalidTask)
        => /\ pc = "aborted"
           /\ exc # "none"
           /\ existing_jobs_names.none
           /\ calls = <<>>
           /\ writes = <<>>
           /\ s3 = run_start_s3
           /\ remote = ValidationRemote

\* C22 witness: the second task of workflow1 names an unknown task type, the
\* snapshot was read, and the run ended with ValueError before any call
C22_Witness ==
    /\ run >= 1
    /\ "workflow1" \in DOMAIN desired
    /\ Len(TasksOf(desired["workflow1"])) = 2
    /\ TasksOf(desired["workflow1"])[2].tasktype = "SHELL"
    /\ TasksOf(desired["workflow1"])[2].task_name = "t1"
    /\ ~CurrentSnapshot.none
    /\ pc = "aborted"
    /\ exc = "ValueError"
    /\ calls = <<>>

====
